---- MODULE Spec2Model ----
(***************************************************************************)
(* The object/history store of the whiteboard (src/context/AppProvider.jsx, *)
(* kept in src/unnamed/part_000): the reducer, its action kinds, and the    *)
(* payloads the components dispatch to it; and the pointer handlers of the  *)
(* canvas (src/components/Canvas/BoardCanvas.jsx and the BoardCanvas kept   *)
(* in src/unnamed/part_002) with the component state they keep.             *)
(***************************************************************************)
EXTENDS Integers, Sequences, FiniteSets, TLC

(* ------------------------------ bounds --------------------------------- *)
\* Longest history the store actions of Spec may build (the reducer itself
\* never stops pushing).
MaxHistory == 3
\* Longest run of consecutive mutating dispatches followed in Spec.
MaxRun == 3
\* Most pointer moves appended to one freehand stroke.
MaxStroke == 1
\* Longest history the canvas gestures may build.
MaxCommits == 5
\* Most shapes the toolbar is asked for.
MaxShapes == 2
\* Most freehand strokes kept on the board in the canvas specifications.
MaxFreehand == 1
\* Most entries of the map handed to getNearestObj.
MaxMap == 2
\* Most commits and undone commits before the last gesture of the draw
\* specification begins.
MaxDrawn == 1
\* Most lines kept on the board in the line specification.
MaxLines == 2

\* Snapshots kept, history and future together, while shapes are dragged.
MaxDragged == 2

\* Snapshots kept, history and future together, before the store is changed
\* during a gesture.
MaxLost == 3

\* Snapshots in history before the tools are put away.
MaxMoved == 3

(* ------------------------- program constants --------------------------- *)
\* initialState.historyLimit
historyLimit == 50
\* threshold = 20, the default of getNearestObj
threshold == 20

\* Entity ids in play.
Ids == {"a", "b", "c"}

\* Tool modes handed to SET_MODE.
Modes == {"select", "draw"}

(* ------------------------------ values --------------------------------- *)
\* A JavaScript array of ids, and a bare id string: the two shapes of value
\* the components hand to SET_SELECTED (onSelect([obj.id]) / onSelect(obj.id)).
Arr(ids) == [array |-> ids]
Str(id) == [string |-> id]
IsArray(v) == "array" \in DOMAIN v

\* The exception a method call on a value that lacks the method raises.
TypeError == [error |-> "TypeError"]

\* Entities handed to ADD_OBJECT: a shape, and an arrow bound to two shapes.
Rect(i) == [id |-> i, type |-> "rect", x |-> 0]
ArrowAB == [id |-> "c", type |-> "arrow", startId |-> "a", endId |-> "b"]
Entities == {Rect("a"), Rect("b"), ArrowAB}

\* Partial field sets handed to UPDATE_OBJECT (a drag's new position).
Updates == {[x |-> 1]}

\* { ...obj, [k]: v }
Put(obj, k, v) == [j \in DOMAIN obj \cup {k} |-> IF j = k THEN v ELSE obj[j]]

\* { ...updates, ...existingObject }: the stored fields win
Merge_existingWins(existingObject, updates) ==
  [f \in DOMAIN existingObject \cup DOMAIN updates |->
     IF f \in DOMAIN existingObject THEN existingObject[f] ELSE updates[f]]

\* { ...existingObject, ...updates }
Merge(existingObject, updates) ==
  [f \in DOMAIN existingObject \cup DOMAIN updates |->
     IF f \in DOMAIN updates THEN updates[f] ELSE existingObject[f]]

\* const o = { ...obj }; delete o[k]
Delete(obj, k) == [j \in DOMAIN obj \ {k} |-> obj[j]]

\* array.filter(id => id !== idToDelete)
Filter(ids, idToDelete) == SelectSeq(ids, LAMBDA id : id # idToDelete)

\* array.slice(0, -1)
SliceLast(s) == SubSeq(s, 1, Len(s) - 1)

EmptyObjects == [j \in {} |-> Rect(j)]

\* null in a slot that otherwise holds an object, and in one that otherwise
\* holds a string; a payload that was not given
Null == [null |-> TRUE]
NullId == "null"
Undefined == [undefined |-> TRUE]

\* initialState
initialState ==
  [objects |-> EmptyObjects,
   selectedIds |-> Arr(<<>>),
   mode |-> "select",
   history |-> <<>>,
   future |-> <<>>,
   reconnect |-> [active |-> FALSE, arrowId |-> NullId, endpoint |-> NullId]]

VARIABLES
  state,    \* the store state useReducer holds
  crashed,  \* the reducer or a render threw: React unmounts the tree,
            \* nothing runs after
  last,     \* kind and target id of the action dispatched last
  run,      \* consecutive mutating dispatches so far (n), how many of them
            \* pushed a snapshot onto history, and the kind of the action
            \* dispatched right before the run
  canvas,   \* which BoardCanvas module is mounted
  ui,       \* BoardCanvas' useState values
  pointer,  \* the pointer device: button held, and what it went down on
  call      \* the call of a connector helper made last: its module,
            \* function, arguments and result

vars == <<state, crashed, last, run, canvas, ui, pointer, call>>

(* ------------------------------ reducer -------------------------------- *)
SET_MODE(s, payload) == [s EXCEPT !.mode = payload]

\* SET_SELECTED that also empties future
SET_SELECTED_clearsFuture(s, payload) ==
  [s EXCEPT !.selectedIds = payload, !.future = <<>>]

SET_SELECTED(s, payload) == [s EXCEPT !.selectedIds = payload]


\* ADD_OBJECT without future: []
ADD_OBJECT_keepsFuture(s, payload) ==
  [s EXCEPT !.objects = Put(s.objects, payload.id, payload),
            !.selectedIds = Arr(<<payload.id>>),
            !.history = Append(s.history, s.objects)]

\* ADD_OBJECT storing the entity under its type, not its id
ADD_OBJECT_keyedByType(s, payload) ==
  [s EXCEPT !.objects = Put(s.objects, payload.type, payload),
            !.selectedIds = Arr(<<payload.id>>),
            !.history = Append(s.history, s.objects),
            !.future = <<>>]

ADD_OBJECT(s, payload) ==
  [s EXCEPT !.objects = Put(s.objects, payload.id, payload),
            !.selectedIds = Arr(<<payload.id>>),
            !.history = Append(s.history, s.objects),
            !.future = <<>>]


\* UPDATE_OBJECT with the missing-entity check after the history push
UPDATE_OBJECT_lateGuard(s, payload) ==
  [s EXCEPT !.objects = IF payload.id \in DOMAIN s.objects
                        THEN Put(s.objects, payload.id,
                                 Merge(s.objects[payload.id], payload.updates))
                        ELSE s.objects,
            !.history = Append(s.history, s.objects),
            !.future = <<>>]

UPDATE_OBJECT(s, payload) ==
  IF payload.id \notin DOMAIN s.objects
  THEN s
  ELSE [s EXCEPT !.objects = Put(s.objects, payload.id,
                                 Merge(s.objects[payload.id], payload.updates)),
                 !.history = Append(s.history, s.objects),
                 !.future = <<>>]

\* DELETE_OBJECT without future: []
DELETE_OBJECT_keepsFuture(s, payload) ==
  IF ~IsArray(s.selectedIds)
  THEN TypeError
  ELSE [s EXCEPT !.objects = Delete(s.objects, payload),
                 !.selectedIds = Arr(Filter(s.selectedIds.array, payload)),
                 !.history = Append(s.history, s.objects)]

\* DELETE_OBJECT that leaves the selection as it was
DELETE_OBJECT_keepsSelection(s, payload) ==
  [s EXCEPT !.objects = Delete(s.objects, payload),
            !.history = Append(s.history, s.objects),
            !.future = <<>>]

\* state.selectedIds.filter exists only when selectedIds is an array
DELETE_OBJECT(s, payload) ==
  IF ~IsArray(s.selectedIds)
  THEN TypeError
  ELSE [s EXCEPT !.objects = Delete(s.objects, payload),
                 !.selectedIds = Arr(Filter(s.selectedIds.array, payload)),
                 !.history = Append(s.history, s.objects),
                 !.future = <<>>]


\* CLEAR_BOARD pushing the emptied mapping instead of the previous one
CLEAR_BOARD_pushesEmpty(s) ==
  [s EXCEPT !.objects = EmptyObjects,
            !.selectedIds = Arr(<<>>),
            !.history = Append(s.history, EmptyObjects),
            !.future = <<>>]

CLEAR_BOARD(s) ==
  [s EXCEPT !.objects = EmptyObjects,
            !.selectedIds = Arr(<<>>),
            !.history = Append(s.history, s.objects),
            !.future = <<>>]


\* UNDO pushing the restored snapshot, not the current mapping, onto future
UNDO_futureGetsPrevious(s) ==
  IF Len(s.history) = 0
  THEN s
  ELSE [s EXCEPT !.objects = s.history[Len(s.history)],
                 !.history = SliceLast(s.history),
                 !.future = Append(s.future, s.history[Len(s.history)]),
                 !.selectedIds = Arr(<<>>)]

\* UNDO without selectedIds: []
UNDO_keepsSelection(s) ==
  IF Len(s.history) = 0
  THEN s
  ELSE [s EXCEPT !.objects = s.history[Len(s.history)],
                 !.history = SliceLast(s.history),
                 !.future = Append(s.future, s.objects)]

\* UNDO that drops the current mapping: no push onto future
UNDO_dropsCurrent(s) ==
  IF Len(s.history) = 0
  THEN s
  ELSE [s EXCEPT !.objects = s.history[Len(s.history)],
                 !.history = SliceLast(s.history),
                 !.selectedIds = Arr(<<>>)]

UNDO(s) ==
  IF Len(s.history) = 0
  THEN s
  ELSE [s EXCEPT !.objects = s.history[Len(s.history)],
                 !.history = SliceLast(s.history),
                 !.future = Append(s.future, s.objects),
                 !.selectedIds = Arr(<<>>)]

\* REDO taking the oldest undone snapshot, future[0]
REDO_takesOldest(s) ==
  IF Len(s.future) = 0
  THEN s
  ELSE [s EXCEPT !.objects = s.future[1],
                 !.future = SliceLast(s.future),
                 !.history = Append(s.history, s.objects),
                 !.selectedIds = Arr(<<>>)]

REDO(s) ==
  IF Len(s.future) = 0
  THEN s
  ELSE [s EXCEPT !.objects = s.future[Len(s.future)],
                 !.future = SliceLast(s.future),
                 !.history = Append(s.history, s.objects),
                 !.selectedIds = Arr(<<>>)]

\* action.payload.arrowId exists only when a payload was given
RECONNECT_START(s, payload) ==
  IF payload = Undefined
  THEN TypeError
  ELSE [s EXCEPT !.reconnect = [active |-> TRUE,
                                arrowId |-> payload.arrowId,
                                endpoint |-> payload.endpoint]]

RECONNECT_END(s) ==
  [s EXCEPT !.reconnect = [active |-> FALSE, arrowId |-> NullId, endpoint |-> NullId]]

\* The kinds the switch has a case for: ActionTypes, and two string literals.
ActionTypes ==
  {"SET_MODE", "SET_SELECTED", "ADD_OBJECT", "UPDATE_OBJECT", "DELETE_OBJECT",
   "CLEAR_BOARD", "UNDO", "REDO"}
Cases == ActionTypes \cup {"RECONNECT_START", "RECONNECT_END"}

\* reducer whose default case returns initialState
reducer_defaultResets(s, action) ==
  CASE action.type = "SET_MODE" -> SET_MODE(s, action.payload)
    [] action.type = "SET_SELECTED" -> SET_SELECTED(s, action.payload)
    [] action.type = "ADD_OBJECT" -> ADD_OBJECT(s, action.payload)
    [] action.type = "UPDATE_OBJECT" -> UPDATE_OBJECT(s, action.payload)
    [] action.type = "DELETE_OBJECT" -> DELETE_OBJECT(s, action.payload)
    [] action.type = "CLEAR_BOARD" -> CLEAR_BOARD(s)
    [] action.type = "UNDO" -> UNDO(s)
    [] action.type = "REDO" -> REDO(s)
    [] action.type = "RECONNECT_START" -> RECONNECT_START(s, action.payload)
    [] action.type = "RECONNECT_END" -> RECONNECT_END(s)
    [] OTHER -> initialState

reducer(s, action) ==
  CASE action.type = "SET_MODE" -> SET_MODE(s, action.payload)
    [] action.type = "SET_SELECTED" -> SET_SELECTED(s, action.payload)
    [] action.type = "ADD_OBJECT" -> ADD_OBJECT(s, action.payload)
    [] action.type = "UPDATE_OBJECT" -> UPDATE_OBJECT(s, action.payload)
    [] action.type = "DELETE_OBJECT" -> DELETE_OBJECT(s, action.payload)
    [] action.type = "CLEAR_BOARD" -> CLEAR_BOARD(s)
    [] action.type = "UNDO" -> UNDO(s)
    [] action.type = "REDO" -> REDO(s)
    [] action.type = "RECONNECT_START" -> RECONNECT_START(s, action.payload)
    [] action.type = "RECONNECT_END" -> RECONNECT_END(s)
    [] OTHER -> s

(* ------------------------------ actions -------------------------------- *)
Mutating == {"ADD_OBJECT", "UPDATE_OBJECT", "DELETE_OBJECT", "CLEAR_BOARD"}

\* LayerObjects' transformer effect calls selectedIds.map after every change
\* of the selection: it completes only on an array.
Renders(s) == IsArray(s.selectedIds)

\* The run of mutating dispatches after this dispatch.
NextRun(action, r) ==
  IF action.type \in Mutating
  THEN [run EXCEPT !.n = @ + 1,
                   !.pushed = @ + (IF Len(r.history) = Len(state.history) + 1
                                   THEN 1 ELSE 0)]
  ELSE [n |-> 0, pushed |-> 0, after |-> action.type]

\* dispatch(action) on the store, then the render of the new state;
\* id is the entity the action names ("" if none)
Dispatch(action, id) ==
  /\ ~crashed
  /\ last' = [type |-> action.type, id |-> id]
  /\ LET r == reducer(state, action) IN
       IF r = TypeError
       THEN /\ crashed' = TRUE
            /\ UNCHANGED <<state, run>>
       ELSE /\ state' = r
            /\ crashed' = ~Renders(r)
            /\ run' = NextRun(action, r)
  /\ UNCHANGED <<canvas, ui, pointer, call>>

SetMode(m) == Dispatch([type |-> "SET_MODE", payload |-> m], "")

\* onSelect of a rendered entity, or the canvas clearing the selection
SetSelected(payload) == Dispatch([type |-> "SET_SELECTED", payload |-> payload], "")

AddObject(e) == Dispatch([type |-> "ADD_OBJECT", payload |-> e], e.id)

UpdateObject(id, updates) ==
  Dispatch([type |-> "UPDATE_OBJECT", payload |-> [id |-> id, updates |-> updates]], id)

DeleteObject(id) == Dispatch([type |-> "DELETE_OBJECT", payload |-> id], id)

ClearBoard == Dispatch([type |-> "CLEAR_BOARD"], "")

Undo == Dispatch([type |-> "UNDO"], "")

Redo == Dispatch([type |-> "REDO"], "")

\* Entities LayerObjects puts on the canvas as array-selecting nodes:
\* Arrow.jsx (an arrow draws only when both its ends resolve) and Line.jsx
\* call onSelect([obj.id]).
SelectsArray(objects) ==
  {i \in DOMAIN objects :
     \/ objects[i].type = "line"
     \/ /\ objects[i].type = "arrow"
        /\ objects[i].startId \in DOMAIN objects
        /\ objects[i].endId \in DOMAIN objects}

\* What reaches SET_SELECTED: [] from the canvas, [obj.id] from Line and
\* Arrow, the bare obj.id from Shape, StickyNote, TextBox, ImageObject,
\* Freehand and the other Arrow components.
SelectPayloads ==
  {Arr(<<>>)} \cup {Arr(<<i>>) : i \in SelectsArray(state.objects)}
              \cup {Str(i) : i \in DOMAIN state.objects}

(* --------------------------- canvas: values ---------------------------- *)
\* The two BoardCanvas modules of the repository:
\* src/components/Canvas/BoardCanvas.jsx and the one kept in part_002.
Canvases == {"BoardCanvas.jsx", "part_002"}

\* Pointer positions getRelativePointer reports.
Points == {[x |-> 0, y |-> 0], [x |-> 60, y |-> 60]}

\* What a pointer event lands on: the stage, the Konva node of an entity
\* (its id is the entity's), or an endpoint handle of a selected arrow (a
\* Circle without id, child of the layer).
Stage == [kind |-> "stage", id |-> NullId, endpoint |-> NullId]
Node(i) == [kind |-> "node", id |-> i, endpoint |-> NullId]
Handle(i, endpoint) == [kind |-> "handle", id |-> i, endpoint |-> endpoint]
Endpoints == {"start", "end"}

\* Entities LayerObjects draws: an arrow draws only when both ends resolve.
Rendered(objects) ==
  {i \in DOMAIN objects :
     objects[i].type = "arrow"
       => (objects[i].startId \in DOMAIN objects /\ objects[i].endId \in DOMAIN objects)}

\* selectedIds.includes(obj.id)
Selected(s, i) ==
  IF IsArray(s.selectedIds)
  THEN \E k \in 1..Len(s.selectedIds.array) : s.selectedIds.array[k] = i
  ELSE s.selectedIds.string = i

\* The handles Arrow.jsx draws: both ends of a drawn, selected arrow.
Handles(s) ==
  {Handle(i, ep) : i \in {j \in Rendered(s.objects) :
                            s.objects[j].type = "arrow" /\ Selected(s, j)},
                   ep \in Endpoints}

\* e.target of a pointer event on the stage
Targets(s) == {Stage} \cup {Node(i) : i \in Rendered(s.objects)} \cup Handles(s)

\* stage.getIntersection(pos): a shape under the pointer, or null
Intersections(s) == {Null} \cup (Targets(s) \ {Stage})

\* getClickedObjectNode(node).id(): the entity owning the node, NullId if none
getClickedObjectNode(objects, node) ==
  IF node = Null \/ node = Stage
  THEN NullId
  ELSE IF node.kind = "node" /\ node.id \in DOMAIN objects
       THEN node.id
       ELSE NullId

\* getObjectCenter(o), o an entity or Null
getObjectCenter(o) ==
  IF o = Null
  THEN [x |-> 0, y |-> 0]
  ELSE CASE o.type \in {"circle", "image", "sticky"} -> [x |-> o.x, y |-> o.y]
         [] o.type = "rect" -> [x |-> o.x + o.width \div 2, y |-> o.y + o.height \div 2]
         [] o.type = "text" ->
              [x |-> o.x + (IF "width" \in DOMAIN o THEN o.width ELSE 80) \div 2,
               y |-> o.y + 12]
         [] OTHER -> [x |-> IF "x" \in DOMAIN o THEN o.x ELSE 0,
                      y |-> IF "y" \in DOMAIN o THEN o.y ELSE 0]

\* objects[id], Null for undefined
Lookup(objects, id) == IF id \in DOMAIN objects THEN objects[id] ELSE Null

\* Ids some snapshot of the store holds.
RECURSIVE IdsOf(_)
IdsOf(snapshots) ==
  IF snapshots = <<>> THEN {}
  ELSE DOMAIN Head(snapshots) \cup IdsOf(Tail(snapshots))
UsedIds(s) == DOMAIN s.objects \cup IdsOf(s.history) \cup IdsOf(s.future)

\* The ids uuid() hands out in the canvas specifications.
Uuids == Ids \cup {"d"}

\* "obj-" + uuid(): an id no entity has had (NullId when Uuids has run out)
uuid(s) == IF Uuids \ UsedIds(s) = {} THEN NullId ELSE CHOOSE i \in Uuids \ UsedIds(s) : TRUE

\* No helper has been called.
NoCall == [fn |-> "none"]

\* useState(...) of BoardCanvas
useState ==
  [currentLine |-> Null,
   previewShape |-> Null,
   selection |-> [start |-> Null, active |-> FALSE],
   reconnect |-> [active |-> FALSE, arrowId |-> NullId, endpoint |-> NullId,
                  startPos |-> Null]]

\* The pointer at rest.
PointerUp == [pressed |-> FALSE, target |-> Null, pos |-> [x |-> 0, y |-> 0],
              moved |-> FALSE, dragging |-> FALSE]

Init ==
  /\ state = initialState
  /\ crashed = FALSE
  /\ last = [type |-> "INIT", id |-> ""]
  /\ run = [n |-> 0, pushed |-> 0, after |-> "INIT"]
  /\ canvas = "BoardCanvas.jsx"
  /\ ui = useState
  /\ pointer = PointerUp
  /\ call = NoCall

\* Room left, within the bounds, for one more mutating dispatch.
Room == Len(state.history) < MaxHistory /\ run.n < MaxRun

Next ==
  \/ \E m \in Modes : SetMode(m)
  \/ \E p \in SelectPayloads : SetSelected(p)
  \/ Room /\ \E e \in Entities : AddObject(e)
  \/ Room /\ \E i \in Ids, u \in Updates : UpdateObject(i, u)
  \/ Room /\ \E i \in Ids : DeleteObject(i)
  \/ Room /\ ClearBoard
  \/ Undo
  \/ Redo

Spec == Init /\ [][Next]_vars

(* A board cleared again and again, past the configured history limit. *)
RoomCap == Len(state.history) <= historyLimit

NextCap ==
  \/ RoomCap /\ ClearBoard
  \/ Undo
  \/ Redo

SpecCap == Init /\ [][NextCap]_vars

(* ----------------------- canvas: BoardCanvas.jsx ----------------------- *)
\* The handlers map the store state s and the useState values u to the pair
\* they leave behind. Colours, stroke widths and texts are left out of the
\* entities and previews.

\* createObject(type, props): dispatch ADD_OBJECT of { id, type, ...props }
createObject(s, type, props) ==
  ADD_OBJECT(s, Merge([id |-> uuid(s), type |-> type], props))

\* { ...p, points }
WithPoints(p, points) == Put(IF p = Null THEN <<>> ELSE p, "points", points)

\* handleStartReconnect(arrowId, endpoint, handlePos)
handleStartReconnect(s, u, arrowId, endpoint, handlePos) ==
  LET arrow == Lookup(s.objects, arrowId) IN
  IF arrow = Null
  THEN [state |-> s, ui |-> u]
  ELSE LET pos == IF handlePos # Undefined /\ "sx" \in DOMAIN handlePos
                  THEN [x |-> handlePos.sx, y |-> handlePos.sy]
                  ELSE getObjectCenter(Lookup(s.objects, arrow.startId))
       IN [state |-> s,
           ui |-> [u EXCEPT !.reconnect = [active |-> TRUE, arrowId |-> arrowId,
                                           endpoint |-> endpoint, startPos |-> pos],
                            !.previewShape = [type |-> "arrow",
                                              points |-> <<pos.x, pos.y, pos.x, pos.y>>]]]

\* The one-shot shapes of handleMouseDown, by mode.
ShapeProps(mode, pos) ==
  CASE mode = "rect" -> [x |-> pos.x - 50, y |-> pos.y - 50, width |-> 100, height |-> 100]
    [] mode = "circle" -> [x |-> pos.x, y |-> pos.y, radius |-> 50]
    [] mode = "text" -> [x |-> pos.x, y |-> pos.y, width |-> 150]
    [] mode = "sticky" -> [x |-> pos.x, y |-> pos.y, width |-> 150, height |-> 150]

\* handleMouseDown(e), e.target = target, the pointer at pos
handleMouseDown(s, u, pos, target) ==
  LET id == getClickedObjectNode(s.objects, target) IN
  IF s.mode = "draw"
  THEN [state |-> s,
        ui |-> [u EXCEPT !.currentLine = [type |-> "freehand", points |-> <<pos.x, pos.y>>]]]
  ELSE IF s.mode = "arrow"
  THEN IF id # NullId
       THEN LET center == getObjectCenter(s.objects[id]) IN
            [state |-> s,
             ui |-> [u EXCEPT !.previewShape =
                       [type |-> "arrow", startId |-> id,
                        points |-> <<center.x, center.y, pos.x, pos.y>>]]]
       ELSE [state |-> s, ui |-> u]
  ELSE IF s.mode = "line"
  THEN [state |-> s,
        ui |-> [u EXCEPT !.previewShape =
                  [type |-> "line", points |-> <<pos.x, pos.y, pos.x, pos.y>>]]]
  ELSE IF target = Stage /\ s.mode \in {"rect", "circle", "text", "sticky"}
  THEN [state |-> SET_MODE(createObject(s, s.mode, ShapeProps(s.mode, pos)), "select"),
        ui |-> u]
  ELSE IF target = Stage /\ s.mode = "select"
  THEN [state |-> SET_SELECTED(s, Arr(<<>>)),
        ui |-> [u EXCEPT !.selection = [start |-> pos, active |-> TRUE]]]
  ELSE [state |-> s, ui |-> u]

\* previewShape.type, previewShape.startId: "" where JavaScript has undefined
TypeOf(p) == IF p # Null /\ "type" \in DOMAIN p THEN p.type ELSE ""
StartIdOf(p) == IF p # Null /\ "startId" \in DOMAIN p THEN p.startId ELSE ""

\* handleMouseMove(e) committing the stroke to the store on every move
handleMouseMove_commitsStroke(s, u, pos) ==
  IF u.currentLine # Null
  THEN [state |-> createObject(s, "freehand",
                               [points |-> u.currentLine.points \o <<pos.x, pos.y>>]),
        ui |-> [u EXCEPT !.currentLine.points = @ \o <<pos.x, pos.y>>]]
  ELSE [state |-> s, ui |-> u]

\* handleMouseMove(e), the pointer at pos
handleMouseMove(s, u, pos) ==
  IF u.currentLine # Null
  THEN [state |-> s,
        ui |-> [u EXCEPT !.currentLine.points = @ \o <<pos.x, pos.y>>]]
  ELSE IF u.reconnect.active /\ u.reconnect.startPos # Null
  THEN [state |-> s,
        ui |-> [u EXCEPT !.previewShape =
                  WithPoints(@, <<u.reconnect.startPos.x, u.reconnect.startPos.y,
                                  pos.x, pos.y>>)]]
  ELSE IF TypeOf(u.previewShape) = "arrow"
  THEN LET sObj == Lookup(s.objects, StartIdOf(u.previewShape)) IN
       IF sObj # Null
       THEN LET c == getObjectCenter(sObj) IN
            [state |-> s,
             ui |-> [u EXCEPT !.previewShape = WithPoints(@, <<c.x, c.y, pos.x, pos.y>>)]]
       ELSE [state |-> s, ui |-> u]
  ELSE IF TypeOf(u.previewShape) = "line"
  THEN [state |-> s,
        ui |-> [u EXCEPT !.previewShape =
                  WithPoints(@, <<@.points[1], @.points[2], pos.x, pos.y>>)]]
  ELSE [state |-> s, ui |-> u]

\* Math.hypot(pts[2] - pts[0], pts[3] - pts[1]) > 10, on integers
LongerThan10(pts) ==
  (pts[3] - pts[1]) * (pts[3] - pts[1]) + (pts[4] - pts[2]) * (pts[4] - pts[2]) > 10 * 10

ClearReconnect ==
  [active |-> FALSE, arrowId |-> NullId, endpoint |-> NullId, startPos |-> Null]

\* handleMouseUp committing a stroke of a single coordinate pair
handleMouseUp_commitsDot(s, u, found) ==
  LET id == getClickedObjectNode(s.objects, found) IN
  IF u.currentLine # Null
  THEN [state |-> IF Len(u.currentLine.points) > 1
                  THEN createObject(s, "freehand", u.currentLine)
                  ELSE s,
        ui |-> [u EXCEPT !.currentLine = Null]]
  ELSE IF u.reconnect.active
  THEN LET arrow == Lookup(s.objects, u.reconnect.arrowId)
           updates == IF u.reconnect.endpoint = "start"
                      THEN [startId |-> id] ELSE [endId |-> id]
       IN [state |-> SET_MODE(
                       IF id # NullId /\ arrow # Null /\ id # arrow.startId
                       THEN UPDATE_OBJECT(s, [id |-> arrow.id, updates |-> updates])
                       ELSE s,
                       "select"),
           ui |-> [u EXCEPT !.reconnect = ClearReconnect, !.previewShape = Null]]
  ELSE IF TypeOf(u.previewShape) = "arrow" /\ StartIdOf(u.previewShape) # ""
  THEN [state |-> SET_MODE(
                    IF id # NullId /\ id # u.previewShape.startId
                    THEN createObject(s, "arrow",
                                      [startId |-> u.previewShape.startId, endId |-> id])
                    ELSE s,
                    "select"),
        ui |-> [u EXCEPT !.previewShape = Null]]
  ELSE IF TypeOf(u.previewShape) = "line"
  THEN [state |-> SET_MODE(
                    IF LongerThan10(u.previewShape.points)
                    THEN createObject(s, "line", u.previewShape)
                    ELSE s,
                    "select"),
        ui |-> [u EXCEPT !.previewShape = Null]]
  ELSE IF u.selection.active
  THEN [state |-> s, ui |-> [u EXCEPT !.selection = [start |-> Null, active |-> FALSE]]]
  ELSE [state |-> s, ui |-> u]

\* handleMouseUp(), stage.getIntersection(pos) = found
handleMouseUp(s, u, found) ==
  LET id == getClickedObjectNode(s.objects, found) IN
  IF u.currentLine # Null
  THEN [state |-> IF Len(u.currentLine.points) > 3
                  THEN createObject(s, "freehand", u.currentLine)
                  ELSE s,
        ui |-> [u EXCEPT !.currentLine = Null]]
  ELSE IF u.reconnect.active
  THEN LET arrow == Lookup(s.objects, u.reconnect.arrowId)
           updates == IF u.reconnect.endpoint = "start"
                      THEN [startId |-> id] ELSE [endId |-> id]
       IN [state |-> SET_MODE(
                       IF id # NullId /\ arrow # Null /\ id # arrow.startId
                       THEN UPDATE_OBJECT(s, [id |-> arrow.id, updates |-> updates])
                       ELSE s,
                       "select"),
           ui |-> [u EXCEPT !.reconnect = ClearReconnect, !.previewShape = Null]]
  ELSE IF TypeOf(u.previewShape) = "arrow" /\ StartIdOf(u.previewShape) # ""
  THEN [state |-> SET_MODE(
                    IF id # NullId /\ id # u.previewShape.startId
                    THEN createObject(s, "arrow",
                                      [startId |-> u.previewShape.startId, endId |-> id])
                    ELSE s,
                    "select"),
        ui |-> [u EXCEPT !.previewShape = Null]]
  ELSE IF TypeOf(u.previewShape) = "line"
  THEN [state |-> SET_MODE(
                    IF LongerThan10(u.previewShape.points)
                    THEN createObject(s, "line", u.previewShape)
                    ELSE s,
                    "select"),
        ui |-> [u EXCEPT !.previewShape = Null]]
  ELSE IF u.selection.active
  THEN [state |-> s, ui |-> [u EXCEPT !.selection = [start |-> Null, active |-> FALSE]]]
  ELSE [state |-> s, ui |-> u]

(* -------------------------- canvas: part_002 --------------------------- *)
\* createObject(type, props) of part_002: { id, type, x: props.x || 0,
\* y: props.y || 0, ...props }, no dispatch for a freehand of fewer than 4
\* numbers
createObject_part002(s, type, props) ==
  IF type = "freehand" /\ Len(props.points) < 4
  THEN s
  ELSE ADD_OBJECT(s, Merge([id |-> uuid(s), type |-> type, x |-> 0, y |-> 0], props))

\* shapeHandlers[mode] of part_002
ShapeProps_part002(mode, pos) ==
  CASE mode = "sticky" -> [x |-> pos.x, y |-> pos.y, width |-> 200, height |-> 120]
    [] mode = "text" -> [x |-> pos.x, y |-> pos.y, width |-> 200]
    [] mode = "rect" -> [x |-> pos.x, y |-> pos.y, width |-> 150, height |-> 100]
    [] mode = "circle" -> [x |-> pos.x, y |-> pos.y, radius |-> 50]

\* handleMouseDown(e) of part_002
handleMouseDown_part002(s, u, pos, target) ==
  IF s.mode = "draw"
  THEN [state |-> s, ui |-> [u EXCEPT !.currentLine = [points |-> <<pos.x, pos.y>>]]]
  ELSE IF s.mode \in {"sticky", "text", "rect", "circle"}
  THEN [state |-> SET_MODE(createObject_part002(s, s.mode, ShapeProps_part002(s.mode, pos)),
                           "select"),
        ui |-> u]
  ELSE IF s.mode = "arrow"
  THEN [state |-> s, ui |-> u]
  ELSE IF s.mode = "line"
  THEN [state |-> s,
        ui |-> [u EXCEPT !.previewShape =
                  [type |-> "line", points |-> <<pos.x, pos.y, pos.x, pos.y>>]]]
  ELSE IF target = Stage
  THEN [state |-> SET_SELECTED(s, Arr(<<>>)),
        ui |-> [u EXCEPT !.selection = [start |-> pos, active |-> TRUE]]]
  ELSE [state |-> s, ui |-> u]

Abs(n) == IF n < 0 THEN 0 - n ELSE n

\* handleMouseMove(e) of part_002
handleMouseMove_part002(s, u, pos) ==
  IF s.mode = "draw" /\ u.currentLine # Null
  THEN LET pts == u.currentLine.points
           lastX == pts[Len(pts) - 1]
           lastY == pts[Len(pts)]
       IN [state |-> s,
           ui |-> [u EXCEPT !.currentLine.points =
                     IF Abs(pos.x - lastX) > 2 \/ Abs(pos.y - lastY) > 2
                     THEN pts \o <<pos.x, pos.y>>
                     ELSE pts]]
  ELSE IF s.mode = "line" /\ u.previewShape # Null
  THEN [state |-> s,
        ui |-> [u EXCEPT !.previewShape =
                  WithPoints(@, <<@.points[1], @.points[2], pos.x, pos.y>>)]]
  ELSE [state |-> s, ui |-> u]

\* handleMouseUp() of part_002
handleMouseUp_part002(s, u, found) ==
  IF s.mode = "draw" /\ u.currentLine # Null
  THEN [state |-> IF Len(u.currentLine.points) >= 4
                  THEN createObject_part002(s, "freehand", [points |-> u.currentLine.points])
                  ELSE s,
        ui |-> [u EXCEPT !.currentLine = Null]]
  ELSE IF s.mode = "line" /\ u.previewShape # Null
  THEN [state |-> SET_MODE(
                    IF LongerThan10(u.previewShape.points)
                    THEN createObject_part002(s, "line", [points |-> u.previewShape.points])
                    ELSE s,
                    "select"),
        ui |-> [u EXCEPT !.previewShape = Null]]
  ELSE IF u.selection.active
  THEN [state |-> s, ui |-> [u EXCEPT !.selection = [start |-> Null, active |-> FALSE]]]
  ELSE [state |-> s, ui |-> u]

(* ------------------------- canvas: the marquee ------------------------- *)
Min(m, n) == IF m < n THEN m ELSE n

\* The rectangle handleMouseMove gives the selection Rect: from selection.start
\* to the pointer.
MarqueeBox(start, pos) ==
  [x |-> Min(pos.x, start.x), y |-> Min(pos.y, start.y),
   width |-> Abs(pos.x - start.x), height |-> Abs(pos.y - start.y)]

\* isIntersecting(boxA, boxB) of arrowHelpers.js
isIntersecting(boxA, boxB) ==
  /\ boxA.x < boxB.x + boxB.width
  /\ boxA.x + boxA.width > boxB.x
  /\ boxA.y < boxB.y + boxB.height
  /\ boxA.y + boxA.height > boxB.y

(* --------------------------- canvas: actions --------------------------- *)
\* A handler call the bounds leave out: it would need an id beyond Uuids, or a
\* history longer than MaxCommits.
Within(r) == NullId \notin DOMAIN r.state.objects /\ Len(r.state.history) <= MaxCommits

\* The handler's updates, then the render of the new state.
Handled(event, r) ==
  /\ Within(r)
  /\ state' = r.state
  /\ ui' = r.ui
  /\ crashed' = ~Renders(r.state)
  /\ last' = [type |-> event, id |-> ""]
  /\ run' = [n |-> 0, pushed |-> 0, after |-> event]
  /\ UNCHANGED <<canvas, call>>

\* onMouseDown of the Stage
\* Room left, within the bounds, for one more freehand stroke.
StrokeRoom ==
  Cardinality({i \in DOMAIN state.objects : state.objects[i].type = "freehand"})
    < MaxFreehand

MouseDown(pos, target) ==
  /\ ~crashed /\ ~pointer.pressed
  /\ state.mode = "draw" => StrokeRoom
  /\ pointer' = [pressed |-> TRUE, target |-> target, pos |-> pos,
                 moved |-> FALSE, dragging |-> FALSE]
  /\ Handled("mousedown",
             IF canvas = "BoardCanvas.jsx"
             THEN handleMouseDown(state, ui, pos, target)
             ELSE handleMouseDown_part002(state, ui, pos, target))

\* onMouseMove of the Stage; a pointer reports a move when its position changes
MouseMove(pos) ==
  /\ ~crashed /\ (pointer.pressed => pos # pointer.pos)
  /\ ui.currentLine # Null => Len(ui.currentLine.points) < 2 + 2 * MaxStroke
  /\ pointer' = IF pointer.pressed
                THEN [pointer EXCEPT !.pos = pos, !.moved = TRUE]
                ELSE pointer
  /\ Handled("mousemove",
             IF canvas = "BoardCanvas.jsx"
             THEN handleMouseMove(state, ui, pos)
             ELSE handleMouseMove_part002(state, ui, pos))

\* onMouseUp of the Stage; the pointer is where its last event left it
MouseUp(found) ==
  /\ ~crashed /\ pointer.pressed
  /\ pointer' = PointerUp
  /\ Handled("mouseup",
             IF canvas = "BoardCanvas.jsx"
             THEN handleMouseUp(state, ui, found)
             ELSE handleMouseUp_part002(state, ui, found))

\* The handler BoardCanvas.jsx hands LayerObjects as onStartReconnect, called
\* for the drag start of an endpoint handle (the move that starts a drag
\* reaches the Stage's onMouseMove first)
StartReconnect(handlePos) ==
  /\ ~crashed /\ canvas = "BoardCanvas.jsx"
  /\ pointer.pressed /\ pointer.moved /\ ~pointer.dragging
  /\ pointer.target \in Handles(state)
  /\ pointer' = [pointer EXCEPT !.dragging = TRUE, !.moved = TRUE]
  /\ Handled("dragstart",
             handleStartReconnect(state, ui, pointer.target.id,
                                  pointer.target.endpoint, handlePos))

\* Toolbar's setMode, a click off the stage
Toolbar(m) == ~pointer.pressed /\ SetMode(m)

\* onClick of a drawn entity
Click(payload) == ~pointer.pressed /\ SetSelected(payload)

\* What Arrow.jsx hands onReconnectStart as handlePos
HandlePositions == {Undefined} \cup Points

InitCanvas ==
  /\ state = initialState
  /\ crashed = FALSE
  /\ last = [type |-> "INIT", id |-> ""]
  /\ run = [n |-> 0, pushed |-> 0, after |-> "INIT"]
  /\ canvas \in Canvases
  /\ ui = useState
  /\ pointer = PointerUp
  /\ call = NoCall

\* Room left, within the bounds, for one more shape.
ShapeRoom == Cardinality(DOMAIN state.objects) < MaxShapes

\* Both canvases with the one-shot shape tools.
ShapeModes == {"rect", "circle", "text", "sticky"}

NextShapes ==
  \/ Toolbar("select")
  \/ ShapeRoom /\ \E m \in ShapeModes : Toolbar(m)
  \/ \E p \in SelectPayloads : Click(p)
  \/ \E pos \in Points, target \in Targets(state) : MouseDown(pos, target)
  \/ \E pos \in Points : MouseMove(pos)
  \/ \E found \in Intersections(state) : MouseUp(found)

SpecShapes == InitCanvas /\ [][NextShapes]_vars

\* BoardCanvas.jsx with the freehand and connector tools, and rect to connect.
ArrowModes == {"select", "draw", "arrow"}

NextArrows ==
  \/ \E m \in ArrowModes : Toolbar(m)
  \/ ShapeRoom /\ Toolbar("rect")
  \/ \E p \in SelectPayloads : Click(p)
  \/ \E pos \in Points, target \in Targets(state) : MouseDown(pos, target)
  \/ \E pos \in Points : MouseMove(pos)
  \/ \E found \in Intersections(state) : MouseUp(found)
  \/ \E handlePos \in HandlePositions : StartReconnect(handlePos)

SpecArrows == Init /\ [][NextArrows]_vars

(* A store that is also sent kinds ActionTypes does not list. *)
OtherKinds == {"RECONNECT_START", "RECONNECT_END", "PING", "set_mode"}
OtherPayloads == {Undefined, [arrowId |-> "c", endpoint |-> "end"]}

\* dispatch({ type, payload }) of a kind no component dispatches
DispatchOther(type, payload) == Dispatch([type |-> type, payload |-> payload], "")

NextKinds ==
  \/ \E type \in OtherKinds, payload \in OtherPayloads : DispatchOther(type, payload)
  \/ \E m \in Modes : SetMode(m)
  \/ Room /\ \E e \in Entities : AddObject(e)
  \/ Room /\ ClearBoard
  \/ Undo
  \/ Redo

SpecKinds == Init /\ [][NextKinds]_vars

\* BoardCanvas.jsx with the line tool next to the freehand and connector
\* tools: lines to draw and to connect.
LineModes == {"select", "draw", "arrow"}

\* Room left, within the bounds, for one more line.
LineRoom ==
  Cardinality({i \in DOMAIN state.objects : state.objects[i].type = "line"}) < MaxLines

NextLines ==
  \/ \E m \in LineModes : Toolbar(m)
  \/ LineRoom /\ Toolbar("line")
  \/ \E pos \in Points, target \in Targets(state) : MouseDown(pos, target)
  \/ \E pos \in Points : MouseMove(pos)
  \/ \E found \in Intersections(state) : MouseUp(found)
  \/ \E handlePos \in HandlePositions : StartReconnect(handlePos)

SpecLines == Init /\ [][NextLines]_vars

(* ------------------------ canvas: the keyboard ------------------------- *)
\* The key events handleKeyDown of part_002 tells apart; ctrl is
\* e.ctrlKey || e.metaKey.
Keys ==
  {[key |-> "Escape", ctrl |-> FALSE, shift |-> FALSE],
   [key |-> "z", ctrl |-> TRUE, shift |-> FALSE],
   [key |-> "z", ctrl |-> TRUE, shift |-> TRUE],
   [key |-> "y", ctrl |-> FALSE, shift |-> FALSE],
   [key |-> "Delete", ctrl |-> FALSE, shift |-> FALSE]}

\* selectedIds.forEach(id => dispatch({ type: DELETE_OBJECT, payload: id }))
RECURSIVE DeleteEach(_, _)
DeleteEach(s, ids) ==
  IF ids = <<>> THEN s ELSE DeleteEach(DELETE_OBJECT(s, Head(ids)), Tail(ids))

\* handleKeyDown(e) of part_002: its four tests in turn
handleKeyDown_part002(s, u, e) ==
  LET undone == IF e.ctrl /\ e.key = "z" /\ ~e.shift THEN UNDO(s) ELSE s
      redone == IF (e.ctrl /\ (e.shift /\ e.key = "z")) \/ e.key = "y"
                THEN REDO(undone) ELSE undone
      deleted == IF e.key \in {"Delete", "Backspace"}
                 THEN DeleteEach(redone, s.selectedIds.array) ELSE redone
  IN [state |-> IF e.key = "Escape" THEN SET_SELECTED(deleted, Arr(<<>>)) ELSE deleted,
      ui |-> u]

\* keydown on the document, BoardCanvas of part_002 mounted
KeyDown(e) ==
  /\ ~crashed /\ canvas = "part_002"
  /\ Handled("keydown", handleKeyDown_part002(state, ui, e))
  /\ UNCHANGED pointer

\* Both canvases with the freehand and line tools, and the keyboard.
DrawModes == {"select", "draw", "line"}

\* Room left, within the bounds, for one more stroke or line.
Drawable == Len(state.history) + Len(state.future) < MaxDrawn

NextDraw ==
  \/ \E m \in DrawModes : Toolbar(m)
  \/ \E p \in SelectPayloads : Click(p)
  \/ \E pos \in Points, target \in Targets(state) :
       (state.mode = "select" \/ Drawable) /\ MouseDown(pos, target)
  \/ \E pos \in Points : MouseMove(pos)
  \/ \E found \in Intersections(state) : MouseUp(found)
  \/ \E e \in Keys : KeyDown(e)

SpecDraw == InitCanvas /\ [][NextDraw]_vars

(* ------------------------ connector helpers ---------------------------- *)
\* The connector helpers exist three times in the repository: the module
\* Arrow.jsx imports (src/utils/arrowHelpers.js) and two more kept in
\* vite.config.js, from line 55 and from line 183.
Helpers == {"arrowHelpers.js", "vite.config.js:55", "vite.config.js:183"}

\* JavaScript numbers as the helpers meet them: an integer, NaN (arithmetic
\* on undefined), or a value the integers here cannot hold exactly.
Num(n) == [num |-> n]
NaN == [nan |-> TRUE]
Inexact == [inexact |-> TRUE]
IsNum(v) == "num" \in DOMAIN v

\* o[f]: the field's number, undefined when o lacks the field
Get(o, f) == IF f \in DOMAIN o THEN Num(o[f]) ELSE Undefined

\* a + b
Add(a, b) ==
  IF a = Inexact \/ b = Inexact THEN Inexact
  ELSE IF IsNum(a) /\ IsNum(b) THEN Num(a.num + b.num) ELSE NaN

\* a - b
Sub(a, b) ==
  IF a = Inexact \/ b = Inexact THEN Inexact
  ELSE IF IsNum(a) /\ IsNum(b) THEN Num(a.num - b.num) ELSE NaN

\* a / 2
Half(a) ==
  IF a = Inexact THEN Inexact
  ELSE IF ~IsNum(a) THEN NaN
  ELSE IF a.num % 2 = 0 THEN Num(a.num \div 2) ELSE Inexact

\* a || 0
OrZero(a) == IF IsNum(a) THEN a ELSE Num(0)

\* { x, y }
Point(x, y) == [x |-> x, y |-> y]

\* getCenter(o) of arrowHelpers.js
getCenter(o) ==
  IF o = Null
  THEN Point(Num(0), Num(0))
  ELSE IF o.type \in {"sticky", "rect"}
       THEN Point(Add(Get(o, "x"), Half(Get(o, "width"))),
                  Add(Get(o, "y"), Half(Get(o, "height"))))
       ELSE Point(Get(o, "x"), Get(o, "y"))

\* getCenter(o) of vite.config.js, line 55
getCenter_55(o) ==
  IF o = Null
  THEN Point(Num(0), Num(0))
  ELSE CASE o.type \in {"circle", "image", "sticky"} -> Point(Get(o, "x"), Get(o, "y"))
         [] o.type \in {"rect", "text"} ->
              Point(Add(Get(o, "x"), Half(OrZero(Get(o, "width")))),
                    Add(Get(o, "y"), Half(OrZero(Get(o, "height")))))
         [] OTHER -> Point(OrZero(Get(o, "x")), OrZero(Get(o, "y")))

\* getCenter(o) of vite.config.js, line 184
getCenter_183(o) ==
  IF o = Null
  THEN Point(Num(0), Num(0))
  ELSE CASE o.type \in {"sticky", "rect", "text"} ->
              Point(Add(Get(o, "x"), Half(OrZero(Get(o, "width")))),
                    Add(Get(o, "y"), Half(OrZero(Get(o, "height")))))
         [] o.type \in {"circle", "image"} -> Point(Get(o, "x"), Get(o, "y"))
         [] OTHER -> Point(OrZero(Get(o, "x")), OrZero(Get(o, "y")))

\* One edge of intersectRect: the ray from c along d meets the edge at
\* t = (edge - c) / d, where the other coordinate is o + t * dO.
Meets(edge, c, d) ==
  /\ IsNum(edge) /\ IsNum(c) /\ IsNum(d)
  /\ d.num # 0
  /\ (edge.num - c.num) * d.num > 0

\* t and o + t * dO come out exact: t a multiple of 1/4, the coordinate whole
Whole(edge, c, d, dO) ==
  /\ (4 * (edge.num - c.num)) % Abs(d.num) = 0
  /\ ((edge.num - c.num) * dO.num) % Abs(d.num) = 0

\* o + t * dO
Other(edge, c, d, o, dO) ==
  o.num + (IF d.num < 0
           THEN (-((edge.num - c.num) * dO.num)) \div (-d.num)
           ELSE ((edge.num - c.num) * dO.num) \div d.num)

\* if (t > 0 && other >= lo && other <= hi) t.push(...)
Pushed(edge, c, d, o, dO, lo, hi) ==
  /\ Meets(edge, c, d)
  /\ IsNum(o) /\ IsNum(dO) /\ IsNum(lo) /\ IsNum(hi)
  /\ Other(edge, c, d, o, dO) >= lo.num
  /\ Other(edge, c, d, o, dO) <= hi.num

\* a.t - b.t < 0, for the positive t = n / d of two entries
Sooner(a, b) == Abs(a.n) * Abs(b.d) < Abs(b.n) * Abs(a.d)

\* The entries intersectRect pushes, in the order it pushes them.
Entries(cx, cy, dx, dy, left, right, top, bottom) ==
  LET AlongX(edge) ==
        IF Pushed(edge, cx, dx, cy, dy, top, bottom)
        THEN <<[n |-> edge.num - cx.num, d |-> dx.num,
                x |-> edge, y |-> Num(Other(edge, cx, dx, cy, dy))]>>
        ELSE <<>>
      AlongY(edge) ==
        IF Pushed(edge, cy, dy, cx, dx, left, right)
        THEN <<[n |-> edge.num - cy.num, d |-> dy.num,
                x |-> Num(Other(edge, cy, dy, cx, dx)), y |-> edge]>>
        ELSE <<>>
  IN AlongX(left) \o AlongX(right) \o AlongY(top) \o AlongY(bottom)

\* Some entry's t or coordinate is no whole number of quarters.
Rounds(cx, cy, dx, dy, left, right, top, bottom) ==
  \/ \E edge \in {left, right} :
       Meets(edge, cx, dx) /\ IsNum(cy) /\ IsNum(dy) /\ ~Whole(edge, cx, dx, dy)
  \/ \E edge \in {top, bottom} :
       Meets(edge, cy, dy) /\ IsNum(cx) /\ IsNum(dx) /\ ~Whole(edge, cy, dy, dx)

\* t.sort((a, b) => a.t - b.t); return t[0]: the sort is stable
First(t) ==
  LET k == CHOOSE k \in 1..Len(t) :
             /\ \A j \in 1..Len(t) : ~Sooner(t[j], t[k])
             /\ \A j \in 1..(k - 1) : Sooner(t[k], t[j])
  IN Point(t[k].x, t[k].y)

\* intersectRect(cx, cy, tx, ty, rect) of arrowHelpers.js
intersectRect(cx, cy, tx, ty, rect) ==
  LET dx == Sub(tx, cx)
      dy == Sub(ty, cy)
      left == rect.x
      right == Add(rect.x, rect.width)
      top == rect.y
      bottom == Add(rect.y, rect.height)
  IN IF Inexact \in {cx, cy, tx, ty, right, bottom}
          \/ Rounds(cx, cy, dx, dy, left, right, top, bottom)
     THEN Point(Inexact, Inexact)
     ELSE LET t == Entries(cx, cy, dx, dy, left, right, top, bottom)
          IN IF t = <<>> THEN Point(cx, cy) ELSE First(t)

\* intersectRect(cx, cy, tx, ty, rect) of vite.config.js (both copies)
intersectRect_55(cx, cy, tx, ty, rect) ==
  LET dx == Sub(tx, cx)
      dy == Sub(ty, cy)
  IN IF dx = Num(0) /\ dy = Num(0)
     THEN Point(Add(rect.x, Half(rect.width)), Add(rect.y, Half(rect.height)))
     ELSE intersectRect(cx, cy, tx, ty, rect)

\* Math.hypot(a, b) where it is a whole number, its floor elsewhere
Hypot(a, b) ==
  LET m == Abs(a)
      n == Abs(b)
  IN IF n = 0 THEN m
     ELSE IF m = 0 THEN n
     ELSE CHOOSE k \in 0..(m + n) : k * k <= m * m + n * n /\ (k + 1) * (k + 1) > m * m + n * n

\* intersectCircle(cx, cy, tx, ty, r): the same in the three modules
intersectCircle(cx, cy, tx, ty, r) ==
  LET dx == Sub(tx, cx)
      dy == Sub(ty, cy)
  IN IF Inexact \in {dx, dy}
     THEN Point(Inexact, Inexact)
     ELSE IF ~(IsNum(dx) /\ IsNum(dy))
     THEN Point(NaN, NaN)
     ELSE IF dx.num = 0 /\ dy.num = 0
     THEN Point(cx, cy)
     ELSE IF ~IsNum(r)
     THEN Point(NaN, NaN)
     ELSE IF dx.num # 0 /\ dy.num # 0
     THEN Point(Inexact, Inexact)
     ELSE LET len == Hypot(dx.num, dy.num)
          IN Point(Num(cx.num + (dx.num \div len) * r.num),
                   Num(cy.num + (dy.num \div len) * r.num))

\* [0, 0, 0, 0]
Zeros == <<Num(0), Num(0), Num(0), Num(0)>>

\* { x: o.x, y: o.y, width: o.width, height: o.height }
Box(o) == [x |-> Get(o, "x"), y |-> Get(o, "y"),
           width |-> Get(o, "width"), height |-> Get(o, "height")]

\* connectPoints that joins the two centers, whichever entity is absent
connectPoints_noGuard(start, end) ==
  LET cs == getCenter(start)
      ce == getCenter(end)
  IN <<cs.x, cs.y, ce.x, ce.y>>

\* connectPoints(start, end) of arrowHelpers.js
connectPoints(start, end) ==
  IF start = Null \/ end = Null
  THEN Zeros
  ELSE LET cs == getCenter(start)
           ce == getCenter(end)
           p1 == IF start.type \in {"sticky", "rect"}
                 THEN intersectRect(cs.x, cs.y, ce.x, ce.y, Box(start))
                 ELSE IF start.type = "circle"
                 THEN intersectCircle(cs.x, cs.y, ce.x, ce.y, Get(start, "radius"))
                 ELSE cs
           p2 == IF end.type \in {"sticky", "rect"}
                 THEN intersectRect(ce.x, ce.y, cs.x, cs.y, Box(end))
                 ELSE IF end.type = "circle"
                 THEN intersectCircle(ce.x, ce.y, cs.x, cs.y, Get(end, "radius"))
                 ELSE ce
       IN <<p1.x, p1.y, p2.x, p2.y>>

\* The rect connectPoints of vite.config.js, line 131, hands intersectRect:
\* the box of an image or sticky starts half its size before (x, y).
Box_55(o) ==
  [x |-> IF o.type \in {"image", "sticky"}
         THEN Sub(Get(o, "x"), Half(Get(o, "width"))) ELSE Get(o, "x"),
   y |-> IF o.type \in {"image", "sticky"}
         THEN Sub(Get(o, "y"), Half(Get(o, "height"))) ELSE Get(o, "y"),
   width |-> Get(o, "width"), height |-> Get(o, "height")]

\* connectPoints(start, end) of vite.config.js, line 131
connectPoints_55(start, end) ==
  IF start = Null \/ end = Null
  THEN Zeros
  ELSE LET cs == getCenter_55(start)
           ce == getCenter_55(end)
           p1 == IF start.type \in {"sticky", "rect", "text", "image"}
                 THEN intersectRect_55(cs.x, cs.y, ce.x, ce.y, Box_55(start))
                 ELSE IF start.type = "circle"
                 THEN intersectCircle(cs.x, cs.y, ce.x, ce.y, Get(start, "radius"))
                 ELSE cs
           p2 == IF end.type \in {"sticky", "rect", "text", "image"}
                 THEN intersectRect_55(ce.x, ce.y, cs.x, cs.y, Box_55(end))
                 ELSE IF end.type = "circle"
                 THEN intersectCircle(ce.x, ce.y, cs.x, cs.y, Get(end, "radius"))
                 ELSE ce
       IN <<p1.x, p1.y, p2.x, p2.y>>

\* connectPoints(start, end) of vite.config.js, line 239
connectPoints_183(start, end) ==
  IF start = Null \/ end = Null
  THEN Zeros
  ELSE LET cs == getCenter_183(start)
           ce == getCenter_183(end)
           p1 == IF start.type \in {"sticky", "rect", "text", "image"}
                 THEN intersectRect_55(cs.x, cs.y, ce.x, ce.y, Box(start))
                 ELSE IF start.type = "circle"
                 THEN intersectCircle(cs.x, cs.y, ce.x, ce.y, Get(start, "radius"))
                 ELSE cs
           p2 == IF end.type \in {"sticky", "rect", "text", "image"}
                 THEN intersectRect_55(ce.x, ce.y, cs.x, cs.y, Box(end))
                 ELSE IF end.type = "circle"
                 THEN intersectCircle(ce.x, ce.y, cs.x, cs.y, Get(end, "radius"))
                 ELSE ce
       IN <<p1.x, p1.y, p2.x, p2.y>>

\* Arrow({ obj, objectsMap }): nothing when an end is missing, the connector
\* between the two entities otherwise
Arrow(objectsMap, obj) ==
  LET startObj == Lookup(objectsMap, obj.startId)
      endObj == Lookup(objectsMap, obj.endId)
  IN IF startObj = Null \/ endObj = Null
     THEN Null
     ELSE [id |-> obj.id, points |-> connectPoints(startObj, endObj)]

\* let minDistance = Infinity
Infinity == [infinity |-> TRUE]

\* The for-in loop of getNearestObj over the entries left, with the squares
\* of the distances: Math.sqrt keeps their order.
RECURSIVE Scan(_, _, _, _)
Scan(objectsMap, pos, nearestObj, minDistance) ==
  IF objectsMap = <<>>
  THEN [nearestObj |-> nearestObj, minDistance |-> minDistance]
  ELSE LET obj == Head(objectsMap)
           center == getCenter_183(obj)
           dx == Sub(center.x, Num(pos.x))
           dy == Sub(center.y, Num(pos.y))
       IN IF /\ IsNum(dx) /\ IsNum(dy)
             /\ \/ minDistance = Infinity
                \/ dx.num * dx.num + dy.num * dy.num < minDistance.num
          THEN Scan(Tail(objectsMap), pos, obj,
                    Num(dx.num * dx.num + dy.num * dy.num))
          ELSE Scan(Tail(objectsMap), pos, nearestObj, minDistance)

\* getNearestObj(objectsMap, pos, threshold) of vite.config.js, objectsMap as
\* the sequence of its values in key order
getNearestObj(objectsMap, pos, limit) ==
  LET r == Scan(objectsMap, pos, Null, Infinity)
  IN IF r.minDistance # Infinity /\ r.minDistance.num <= limit * limit
     THEN r.nearestObj
     ELSE Null

(* ---------------------- connector helpers: calls ----------------------- *)
\* Where the entities handed to the helpers sit.
Anchors == {[x |-> 10, y |-> 20], [x |-> 60, y |-> 45], [x |-> 260, y |-> 45]}

\* The entities handed to the helpers: every type that has a position, at the
\* sizes of the anchor-convention examples; a text as BoardCanvas.jsx creates
\* it (no height) and as a resize leaves it; and a line, which has points only.
ShapeAt(type, p) ==
  CASE type \in {"rect", "sticky", "image", "textbox"} ->
         [type |-> IF type = "textbox" THEN "text" ELSE type,
          x |-> p.x, y |-> p.y, width |-> 100, height |-> 50]
    [] type = "text" -> [type |-> "text", x |-> p.x, y |-> p.y, width |-> 100]
    [] type = "circle" -> [type |-> "circle", x |-> p.x, y |-> p.y, radius |-> 30]

Shapes ==
  {ShapeAt(type, p) :
     type \in {"rect", "sticky", "image", "textbox", "text", "circle"}, p \in Anchors}
    \cup {[type |-> "line", points |-> <<0, 0, 60, 60>>]}

\* The objectsMap handed to getNearestObj: up to MaxMap entries, in key order.
Maps == UNION {[1..n -> Shapes] : n \in 0..MaxMap}

\* The positions and thresholds handed to getNearestObj.
Positions == Anchors \cup {[x |-> 60, y |-> 65]}
Thresholds == {0, threshold}

\* A helper is called once and returns: nothing of the board changes.
Called(c) ==
  /\ call' = c
  /\ UNCHANGED <<state, crashed, last, run, canvas, ui, pointer>>

CallGetCenter ==
  /\ call = NoCall
  /\ \E module \in Helpers, o \in Shapes \cup {Null} :
       Called([fn |-> "getCenter", module |-> module, args |-> <<o>>,
               result |-> CASE module = "arrowHelpers.js" -> getCenter(o)
                            [] module = "vite.config.js:55" -> getCenter_55(o)
                            [] module = "vite.config.js:183" -> getCenter_183(o)])

\* A call whose result the integers hold exactly.
CallConnectPoints ==
  /\ call = NoCall
  /\ \E module \in Helpers, start \in Shapes \cup {Null}, end \in Shapes \cup {Null} :
       LET result ==
             CASE module = "arrowHelpers.js" -> connectPoints(start, end)
               [] module = "vite.config.js:55" -> connectPoints_55(start, end)
               [] module = "vite.config.js:183" -> connectPoints_183(start, end)
       IN /\ \A k \in 1..4 : result[k] # Inexact
          /\ Called([fn |-> "connectPoints", module |-> module,
                     args |-> <<start, end>>, result |-> result])

CallGetNearestObj ==
  /\ call = NoCall
  /\ \E objectsMap \in Maps, pos \in Positions, limit \in Thresholds :
       Called([fn |-> "getNearestObj", module |-> "vite.config.js:183",
               args |-> <<objectsMap, pos, limit>>,
               result |-> getNearestObj(objectsMap, pos, limit)])

\* The objectsMap an arrow from a to b is rendered over: either end may be
\* missing.
Boards == UNION {[S -> Shapes] : S \in SUBSET {"a", "b"}}

\* <Arrow obj={obj} objectsMap={objectsMap} />
RenderArrow ==
  /\ call = NoCall
  /\ \E objectsMap \in Boards :
       Called([fn |-> "Arrow", module |-> "Arrow.jsx",
               args |-> <<objectsMap, ArrowAB>>,
               result |-> Arrow(objectsMap, ArrowAB)])

NextHelpers ==
  \/ CallGetCenter
  \/ CallConnectPoints
  \/ CallGetNearestObj
  \/ RenderArrow

SpecHelpers == Init /\ [][NextHelpers]_vars

(* ------------------------------- claims -------------------------------- *)
RECURSIVE UndoN(_, _), RedoN(_, _)
\* Undo applied n times
UndoN(s, n) == IF n = 0 THEN s ELSE UndoN(UNDO(s), n - 1)
\* Redo applied n times
RedoN(s, n) == IF n = 0 THEN s ELSE RedoN(REDO(s), n - 1)

Last(seq) == seq[Len(seq)]

\* C1, as stated: after any n mutating dispatches in a row (n within the
\* history cap), n Undos followed by n Redos give back the object mapping
\* that was current after the n-th dispatch.
CexC1 ==
  (run.n >= 1 /\ run.n <= historyLimit)
    => RedoN(UndoN(state, run.n), run.n).objects = state.objects

\* C1, amended: the same law for n mutating dispatches in a row that each
\* pushed a snapshot onto history (none was an UpdateObject on an absent id).
ThmC1 ==
  (run.n >= 1 /\ run.n <= historyLimit /\ run.pushed = run.n)
    => RedoN(UndoN(state, run.n), run.n).objects = state.objects

\* Three pushing dispatches in a row, each of which changed the mapping.
WitnessC1 ==
  /\ run.n = 3
  /\ run.pushed = 3
  /\ \A k \in 1..3 : UndoN(state, k).objects # UndoN(state, k - 1).objects

\* C2, as stated: history and future never hold more than historyLimit
\* snapshots, and a push onto a full history evicts its oldest snapshot.
CexC2 ==
  [][/\ Len(state'.history) <= historyLimit
     /\ Len(state'.future) <= historyLimit
     /\ (Len(state.history) = historyLimit /\ last'.type = "CLEAR_BOARD")
          => state'.history = Append(Tail(state.history), state.objects)]_vars

\* C3, as stated: a mutating dispatch right after an Undo leaves future
\* empty, and a Redo on the resulting state returns it unchanged.
CexC3 ==
  [][(last.type = "UNDO" /\ last'.type \in Mutating)
       => (state'.future = <<>> /\ REDO(state') = state')]_vars

\* C3, amended: the same for AddObject, DeleteObject, ClearBoard and an
\* UpdateObject whose id is in the mapping.
ThmC3 ==
  [][(/\ last.type = "UNDO"
      /\ last'.type \in Mutating
      /\ (last'.type = "UPDATE_OBJECT" => last'.id \in DOMAIN state.objects))
       => (state'.future = <<>> /\ REDO(state') = state')]_vars

\* An UpdateObject on a present id, dispatched right after an Undo.
WitnessC3 ==
  /\ run.after = "UNDO"
  /\ run.n = 1
  /\ run.pushed = 1
  /\ last.type = "UPDATE_OBJECT"
  /\ state.future = <<>>
  /\ Len(state.history) >= 2

\* C4, as stated: the selection is always a sequence of ids, each of them
\* a key of the object mapping.
CexC4 ==
  /\ IsArray(state.selectedIds)
  /\ \A k \in 1..Len(state.selectedIds.array) :
       state.selectedIds.array[k] \in DOMAIN state.objects

\* C5: AddObject(e) with e.id not in the mapping stores e under e.id, makes
\* [e.id] the selection, appends the previous mapping to history (one entry
\* more) and empties future.
ThmC5 ==
  [][\A e \in Entities :
       (last'.type = "ADD_OBJECT" /\ AddObject(e) /\ e.id \notin DOMAIN state.objects)
         => /\ e.id \in DOMAIN state'.objects
            /\ state'.objects[e.id] = e
            /\ state'.selectedIds = Arr(<<e.id>>)
            /\ Len(state'.history) = Len(state.history) + 1
            /\ SubSeq(state'.history, 1, Len(state.history)) = state.history
            /\ Last(state'.history) = state.objects
            /\ state'.future = <<>>]_vars

\* "b" added to a board that held only "a".
WitnessC5 ==
  /\ last.type = "ADD_OBJECT"
  /\ last.id = "b"
  /\ Len(state.history) = 2
  /\ state.selectedIds = Arr(<<"b">>)
  /\ DOMAIN state.objects = {"a", "b"}
  /\ DOMAIN Last(state.history) = {"a"}
  /\ state.future = <<>>

\* C6: UpdateObject(id, fields) on a present id replaces that entity by the
\* old entity overlaid with the given fields, keeps every other entity, the
\* selection and the mode, appends the previous mapping to history and
\* empties future.
ThmC6 ==
  [][\A i \in Ids, u \in Updates :
       (last'.type = "UPDATE_OBJECT" /\ UpdateObject(i, u) /\ i \in DOMAIN state.objects)
         => /\ DOMAIN state'.objects = DOMAIN state.objects
            /\ DOMAIN state'.objects[i] = DOMAIN state.objects[i] \cup DOMAIN u
            /\ \A f \in DOMAIN u : state'.objects[i][f] = u[f]
            /\ \A f \in DOMAIN state.objects[i] \ DOMAIN u :
                 state'.objects[i][f] = state.objects[i][f]
            /\ \A j \in DOMAIN state.objects \ {i} :
                 state'.objects[j] = state.objects[j]
            /\ state'.selectedIds = state.selectedIds
            /\ state'.mode = state.mode
            /\ state'.history = Append(state.history, state.objects)
            /\ state'.future = <<>>]_vars

\* The position of "a" overwritten while "b" is on the board and selected.
WitnessC6 ==
  /\ last.type = "UPDATE_OBJECT"
  /\ last.id = "a"
  /\ DOMAIN state.objects = {"a", "b"}
  /\ state.objects["a"].x = 1
  /\ Last(state.history)["a"].x = 0
  /\ state.selectedIds = Arr(<<"b">>)

\* C7: UpdateObject on an id that is not in the mapping returns the state
\* it was given: objects, selection, mode, history and future all stay.
ThmC7 ==
  [][\A i \in Ids, u \in Updates :
       (last'.type = "UPDATE_OBJECT" /\ UpdateObject(i, u) /\ i \notin DOMAIN state.objects)
         => state' = state]_vars

\* An update of a missing entity on a board with history, future and a
\* selection.
WitnessC7 ==
  /\ last.type = "UPDATE_OBJECT"
  /\ last.id \notin DOMAIN state.objects
  /\ state.history # <<>>
  /\ state.future # <<>>
  /\ state.objects # EmptyObjects

\* C8, as stated: DeleteObject on an id that is not in the mapping returns
\* the state it was given (history does not grow, future is not cleared).
CexC8 ==
  [][\A i \in Ids :
       (last'.type = "DELETE_OBJECT" /\ DeleteObject(i) /\ i \notin DOMAIN state.objects)
         => state' = state]_vars

\* C9: DeleteObject(id) on a present id removes that key and no other,
\* removes id from the selection, keeps every other entity as it was (an
\* arrow bound to id included), appends the previous mapping to history and
\* empties future.
ThmC9 ==
  [][\A i \in Ids :
       (last'.type = "DELETE_OBJECT" /\ DeleteObject(i) /\ i \in DOMAIN state.objects)
         => /\ DOMAIN state'.objects = DOMAIN state.objects \ {i}
            /\ \A j \in DOMAIN state'.objects :
                 state'.objects[j] = state.objects[j]
            /\ IsArray(state'.selectedIds)
            /\ state'.selectedIds.array =
                 SelectSeq(state.selectedIds.array, LAMBDA x : x # i)
            /\ state'.history = Append(state.history, state.objects)
            /\ state'.future = <<>>]_vars

\* "a" deleted while the arrow "c" from "a" is on the board: the arrow
\* stays, still naming "a".
WitnessC9 ==
  /\ last.type = "DELETE_OBJECT"
  /\ last.id = "a"
  /\ "a" \in DOMAIN Last(state.history)
  /\ DOMAIN state.objects = {"c"}
  /\ state.objects["c"] = ArrowAB

ThmC11 ==
  [][/\ last'.type = "UNDO" =>
          IF state.history = <<>>
          THEN state' = state
          ELSE state' = [state EXCEPT !.objects = Last(state.history),
                                      !.history = SubSeq(state.history, 1,
                                                         Len(state.history) - 1),
                                      !.future = Append(state.future, state.objects),
                                      !.selectedIds = Arr(<<>>)]
     /\ (last'.type \in Mutating /\ state' # state)
          => UNDO(state').objects = state.objects]_vars

\* An Undo that acted: two snapshots were on history, one is left, the
\* mapping it replaced is on future.
WitnessC11 ==
  /\ last.type = "UNDO"
  /\ Len(state.history) = 1
  /\ Len(state.future) = 1
  /\ state.future[1] # state.objects
  /\ state.objects # EmptyObjects
  /\ state.selectedIds = Arr(<<>>)

\* C12, as stated: Redo is Undo with history and future exchanged, and any
\* Undo immediately followed by Redo restores the mapping the Undo found.
CexC12 ==
  [][/\ last'.type = "REDO" =>
          IF state.future = <<>>
          THEN state' = state
          ELSE state' = [state EXCEPT !.objects = Last(state.future),
                                      !.future = SubSeq(state.future, 1,
                                                        Len(state.future) - 1),
                                      !.history = Append(state.history, state.objects),
                                      !.selectedIds = Arr(<<>>)]
     /\ last'.type = "UNDO" => REDO(state').objects = state.objects]_vars

\* C12, amended: the same, the round trip for an Undo that found a non-empty
\* history.
ThmC12 ==
  [][/\ last'.type = "REDO" =>
          IF state.future = <<>>
          THEN state' = state
          ELSE state' = [state EXCEPT !.objects = Last(state.future),
                                      !.future = SubSeq(state.future, 1,
                                                        Len(state.future) - 1),
                                      !.history = Append(state.history, state.objects),
                                      !.selectedIds = Arr(<<>>)]
     /\ (last'.type = "UNDO" /\ state.history # <<>>)
          => REDO(state').objects = state.objects]_vars

\* A Redo that acted with two snapshots on future: one is left, and the
\* mapping it replaced is on history.
WitnessC12 ==
  /\ last.type = "REDO"
  /\ Len(state.future) = 1
  /\ Len(state.history) = 2
  /\ Last(state.history) # state.objects
  /\ state.future[1] # state.objects
  /\ state.selectedIds = Arr(<<>>)

\* C13: SET_MODE changes the mode and nothing else of the store state,
\* SET_SELECTED the selection and nothing else.
ThmC13 ==
  [][/\ last'.type = "SET_MODE"
          => \E m \in Modes : state' = [state EXCEPT !.mode = m]
     /\ last'.type = "SET_SELECTED"
          => \E p \in SelectPayloads : state' = [state EXCEPT !.selectedIds = p]]_vars

\* A selection made in draw mode with snapshots on history and on future.
WitnessC13 ==
  /\ last.type = "SET_SELECTED"
  /\ state.selectedIds = Arr(<<>>)
  /\ state.mode = "draw"
  /\ Len(state.history) = 2
  /\ Len(state.future) = 1

CexC15 ==
  [][\A e \in Entities :
       (last'.type = "ADD_OBJECT" /\ AddObject(e) /\ e.id \in DOMAIN state.objects)
         => state' = state]_vars

\* C16, as stated: a marquee gesture in select mode (pointer-down on the
\* stage at a position no rect covers, moves, pointer-up) ends with an array
\* selection that holds a rect exactly when its box intersects the rectangle
\* from the pointer-down position to the pointer-up position.
CexC16 ==
  [][\A found \in Intersections(state) :
       (last'.type = "mouseup" /\ MouseUp(found)
          /\ state.mode = "select" /\ ui.selection.active /\ pointer.moved
          /\ \A i \in DOMAIN state.objects :
               state.objects[i].type = "rect"
                 => ~isIntersecting(state.objects[i],
                                    MarqueeBox(ui.selection.start, ui.selection.start)))
         => /\ IsArray(state'.selectedIds)
            /\ \A i \in DOMAIN state'.objects :
                 state'.objects[i].type = "rect"
                   => (Selected(state', i)
                         <=> isIntersecting(state'.objects[i],
                                            MarqueeBox(ui.selection.start, pointer.pos)))]_vars

CexC20 ==
  [][\A pos \in Points, target \in Targets(state) :
       (last'.type = "mousedown" /\ MouseDown(pos, target)
          /\ state.mode \in ShapeModes)
         => IF target = Stage
            THEN /\ state'.mode = "select"
                 /\ \E i \in DOMAIN state'.objects \ DOMAIN state.objects :
                      /\ DOMAIN state'.objects = DOMAIN state.objects \cup {i}
                      /\ \A j \in DOMAIN state.objects :
                           state'.objects[j] = state.objects[j]
                      /\ state'.objects[i].type = state.mode
                      /\ \/ [x |-> state'.objects[i].x, y |-> state'.objects[i].y] = pos
                         \/ getObjectCenter(state'.objects[i]) = pos
            ELSE /\ state'.objects = state.objects
                 /\ state'.history = state.history]_vars

(* ----------------------- claims: connector helpers ---------------------- *)
\* The entities the anchor convention speaks of, holding the fields it reads.
Conventional(o) ==
  /\ o # Null
  /\ o.type \in {"circle", "image", "sticky", "rect", "text"}
  /\ {"x", "y"} \subseteq DOMAIN o
  /\ o.type # "circle" => {"width", "height"} \subseteq DOMAIN o

\* The center the anchor convention gives an entity: (x, y) for circle, image
\* and sticky, (x + width/2, y + height/2) for rect and text.
AnchorCenter(o) ==
  IF o.type \in {"circle", "image", "sticky"}
  THEN [x |-> o.x, y |-> o.y]
  ELSE [x |-> o.x + o.width \div 2, y |-> o.y + o.height \div 2]

\* The center the called module's own getCenter gives.
CenterIn(module, o) ==
  CASE module = "arrowHelpers.js" -> getCenter(o)
    [] module = "vite.config.js:55" -> getCenter_55(o)
    [] module = "vite.config.js:183" -> getCenter_183(o)

\* C24, as stated: getCenter of arrowHelpers.js and of vite.config.js line 55
\* returns (x, y) for a circle, image or sticky and (x + width/2,
\* y + height/2) for a rect or text, and returns a point, no exception, for
\* null and for an unknown type.
CexC24 ==
  (call.fn = "getCenter" /\ call.module \in {"arrowHelpers.js", "vite.config.js:55"})
    => /\ DOMAIN call.result = {"x", "y"}
       /\ Conventional(call.args[1])
            => call.result = Point(Num(AnchorCenter(call.args[1]).x),
                                   Num(AnchorCenter(call.args[1]).y))

CexC26 ==
  (call.fn = "connectPoints"
     /\ call.module \in {"arrowHelpers.js", "vite.config.js:183"}
     /\ call.args[1] # Null /\ call.args[2] = call.args[1])
    => LET c == CenterIn(call.module, call.args[1])
       IN call.result = <<c.x, c.y, c.x, c.y>>

\* The bounding box the anchor convention gives a rectangle-like entity.
AnchorBox(o) ==
  LET c == AnchorCenter(o)
  IN [left |-> c.x - o.width \div 2, right |-> c.x + o.width \div 2,
      top |-> c.y - o.height \div 2, bottom |-> c.y + o.height \div 2]

\* The point (x, y) lies on the boundary of the entity's bounding box and on
\* the ray from the entity's center toward the center of the other entity.
OnBoundaryTowards(x, y, o, other) ==
  LET b == AnchorBox(o)
      c == AnchorCenter(o)
      d == AnchorCenter(other)
  IN /\ IsNum(x) /\ IsNum(y)
     /\ \/ x.num \in {b.left, b.right} /\ y.num >= b.top /\ y.num <= b.bottom
        \/ y.num \in {b.top, b.bottom} /\ x.num >= b.left /\ x.num <= b.right
     /\ (x.num - c.x) * (d.y - c.y) = (y.num - c.y) * (d.x - c.x)
     /\ (x.num - c.x) * (d.x - c.x) + (y.num - c.y) * (d.y - c.y) > 0

\* C27, as stated: connectPoints of arrowHelpers.js and of vite.config.js
\* line 131 puts the endpoint of a rect, text, sticky or image whose center
\* differs from the other entity's on the boundary of its anchor-convention
\* bounding box and on the ray toward the other center, and gives the raw
\* center for an entity that is neither rectangle-like nor a circle.
CexC27 ==
  (call.fn = "connectPoints"
     /\ call.module \in {"arrowHelpers.js", "vite.config.js:55"}
     /\ call.args[1] # Null /\ call.args[2] # Null)
    => LET start == call.args[1]
           end == call.args[2]
       IN /\ (Conventional(start) /\ Conventional(end) /\ start.type # "circle"
                /\ AnchorCenter(start) # AnchorCenter(end))
               => OnBoundaryTowards(call.result[1], call.result[2], start, end)
          /\ (Conventional(start) /\ Conventional(end) /\ end.type # "circle"
                /\ AnchorCenter(start) # AnchorCenter(end))
               => OnBoundaryTowards(call.result[3], call.result[4], end, start)
          /\ start.type \notin {"rect", "text", "sticky", "image", "circle"}
               => <<call.result[1], call.result[2]>>
                    = <<CenterIn(call.module, start).x, CenterIn(call.module, start).y>>

\* C28, as stated: getNearestObj returns the first entry of the map whose
\* center is nearest to pos when that distance is at most the threshold, and
\* null otherwise, an empty map included.
CexC28 ==
  (call.fn = "getNearestObj" /\ \A k \in DOMAIN call.args[1] : Conventional(call.args[1][k]))
    => LET objectsMap == call.args[1]
           pos == call.args[2]
           Distance2(k) ==
             (AnchorCenter(objectsMap[k]).x - pos.x) * (AnchorCenter(objectsMap[k]).x - pos.x)
               + (AnchorCenter(objectsMap[k]).y - pos.y) * (AnchorCenter(objectsMap[k]).y - pos.y)
           Nearest(k) == \A j \in DOMAIN objectsMap : Distance2(k) <= Distance2(j)
       IN IF \E k \in DOMAIN objectsMap :
               Nearest(k) /\ Distance2(k) <= call.args[3] * call.args[3]
          THEN \E k \in DOMAIN objectsMap :
                 /\ Nearest(k)
                 /\ \A j \in 1..(k - 1) : ~Nearest(j)
                 /\ call.result = objectsMap[k]
          ELSE call.result = Null

(* --------------------------- claims: gestures --------------------------- *)
\* C23, as stated: a click on an entity of the board, whatever its type, sets
\* the selection to the one-element sequence holding that entity's id.
CexC23 ==
  [][\A i \in DOMAIN state.objects :
       \A payload \in {Arr(<<i>>), Str(i)} \cap SelectPayloads :
         (last'.type = "SET_SELECTED" /\ SetSelected(payload))
           => state'.selectedIds = Arr(<<i>>)]_vars

\* The entity a handler added to the mapping, NullId if it added none.
Added(objects, after) ==
  IF \E i \in DOMAIN after : DOMAIN after = DOMAIN objects \cup {i} /\ i \notin DOMAIN objects
  THEN CHOOSE i \in DOMAIN after : i \notin DOMAIN objects
  ELSE NullId

\* C22: in draw mode a pointer-up commits a freehand entity if and only if
\* the in-progress point list holds at least 2 coordinate pairs (4 numbers);
\* it clears the in-progress stroke in both cases, and the committed entity's
\* points are the captured list, in capture order.
ThmC22 ==
  [][\A found \in Intersections(state) :
       (last'.type = "mouseup" /\ MouseUp(found) /\ state.mode = "draw")
         => /\ ui.currentLine # Null
            /\ ui'.currentLine = Null
            /\ IF Len(ui.currentLine.points) >= 2 * 2
               THEN LET i == Added(state.objects, state'.objects)
                    IN /\ i # NullId
                       /\ state'.objects[i].type = "freehand"
                       /\ state'.objects[i].points = ui.currentLine.points
                       /\ \A j \in DOMAIN state.objects :
                            state'.objects[j] = state.objects[j]
               ELSE /\ state'.objects = state.objects
                    /\ state'.history = state.history]_vars

\* A stroke of two coordinate pairs, (0, 0) then (60, 60), was committed by
\* the pointer-up.
WitnessC22 ==
  /\ last.type = "mouseup"
  /\ state.mode = "draw"
  /\ ui.currentLine = Null
  /\ \E i \in DOMAIN state.objects :
       /\ state.objects[i].type = "freehand"
       /\ state.objects[i].points = <<0, 0, 60, 60>>
       /\ Last(state.history) = Delete(state.objects, i)

\* Some transient operation of the canvas is in progress.
InProgress(u) ==
  \/ u.currentLine # Null
  \/ u.previewShape # Null
  \/ u.selection.active
  \/ u.reconnect.active

\* C29, as stated: while a stroke, a preview or a reconnection is in
\* progress, a second pointer-move at the position of the one just handled
\* leaves the transient state as the first left it.
CexC29 ==
  [][\A pos \in Points :
       (last'.type = "mousemove" /\ MouseMove(pos) /\ InProgress(ui))
         => ui' = (IF canvas = "BoardCanvas.jsx"
                   THEN handleMouseMove(state', ui', pos)
                   ELSE handleMouseMove_part002(state', ui', pos)).ui]_vars

\* C30, as stated: an Escape key press while a transient operation is in
\* progress abandons it and leaves mapping, history and future as they were,
\* and a pointer-up after it commits nothing.
CexC30 ==
  [][\A e \in Keys :
       (last'.type = "keydown" /\ KeyDown(e) /\ e.key = "Escape" /\ InProgress(ui))
         => /\ ~InProgress(ui')
            /\ state'.objects = state.objects
            /\ state'.history = state.history
            /\ state'.future = state.future
            /\ \A found \in Intersections(state') :
                 handleMouseUp_part002(state', ui', found).state.objects
                   = state'.objects]_vars

CexC33 ==
  [][\A found \in Intersections(state) :
       (last'.type = "mouseup" /\ MouseUp(found) /\ state.mode = "arrow")
         => /\ state'.mode = "select"
            /\ ui'.previewShape = Null]_vars

ThmC38 ==
  [][LET before == Len(state.history) + Len(state.future)
         after == Len(state'.history) + Len(state'.future)
     IN /\ (last'.type = "UNDO" /\ Undo /\ Len(state.history) > 0)
             => (after = before /\ Len(state'.history) = Len(state.history) - 1)
        /\ (last'.type = "REDO" /\ Redo /\ Len(state.future) > 0)
             => (after = before /\ Len(state'.future) = Len(state.future) - 1)
        /\ after # before
             => /\ last'.type \in Mutating
                /\ state'.future = <<>>
                /\ Len(state'.history) = Len(state.history) + 1]_vars

\* An Undo that found two snapshots in history and one in future.
WitnessC38 ==
  /\ last.type = "UNDO"
  /\ Len(state.history) = 1
  /\ Len(state.future) = 2

handleDragMove_live(s, id, node) ==
  UPDATE_OBJECT(s, [id |-> id, updates |-> [x |-> node.x, y |-> node.y]])

\* handleDragMove(e) of Shape.jsx: past the throttle it calls onLiveUpdate
\* if there is one, and neither BoardCanvas hands LayerObjects an
\* onLiveUpdate, so with or without the throttle nothing is dispatched.
handleDragMove(s, id, node) == s

\* handleDragEnd(e) of Shape.jsx, onUpdate being the dispatch of
\* UPDATE_OBJECT both BoardCanvas modules hand to LayerObjects
handleDragEnd(s, isDragging, id, node) ==
  IF ~isDragging
  THEN s
  ELSE UPDATE_OBJECT(s, [id |-> id, updates |-> [x |-> node.x, y |-> node.y]])

\* onDragStart of a Shape: the pressed pointer has moved on a rect's node
DragStart ==
  /\ ~crashed
  /\ pointer.pressed /\ pointer.moved /\ ~pointer.dragging
  /\ pointer.target.kind = "node"
  /\ Lookup(state.objects, pointer.target.id) # Null
  /\ state.objects[pointer.target.id].type = "rect"
  /\ pointer' = [pointer EXCEPT !.dragging = TRUE]
  /\ Handled("dragstart", [state |-> state, ui |-> ui])

\* onDragMove of the dragged Shape
DragMove(node) ==
  /\ ~crashed
  /\ pointer.dragging /\ pointer.target.kind = "node"
  /\ UNCHANGED pointer
  /\ Handled("dragmove",
             [state |-> handleDragMove(state, pointer.target.id, node), ui |-> ui])

\* The release that ends a drag: the Stage's onMouseUp, then onDragEnd of
\* the dragged Shape.
DragEnd(node, found) ==
  /\ ~crashed
  /\ pointer.dragging /\ pointer.target.kind = "node"
  /\ pointer' = PointerUp
  /\ LET up == IF canvas = "BoardCanvas.jsx"
               THEN handleMouseUp(state, ui, found)
               ELSE handleMouseUp_part002(state, ui, found)
     IN Handled("dragend",
                [state |-> handleDragEnd(up.state, pointer.dragging,
                                         pointer.target.id, node),
                 ui |-> up.ui])

\* Both canvases in select mode, with the rect tool to have something to
\* drag and the keyboard of part_002 between the gestures.
NextDrag ==
  \/ Toolbar("select")
  \/ ShapeRoom /\ Toolbar("rect")
  \/ \E pos \in Points, target \in Targets(state) :
       /\ (state.mode = "select" /\ target = Stage)
            \/ Len(state.history) + Len(state.future) < MaxDragged
       /\ MouseDown(pos, target)
  \/ \E pos \in Points : MouseMove(pos)
  \/ \E found \in Intersections(state) : ~pointer.dragging /\ MouseUp(found)
  \/ DragStart
  \/ \E node \in Points : DragMove(node)
  \/ \E node \in Points, found \in Intersections(state) : DragEnd(node, found)
  \/ \E e \in Keys : ~pointer.pressed /\ KeyDown(e)

SpecDrag == InitCanvas /\ [][NextDrag]_vars

Stale(s) == {Node(i) : i \in UsedIds(s) \ DOMAIN s.objects}

\* BoardCanvas.jsx with the connector tools and rect, and the store
\* dispatched to by others while a connector gesture is in progress.
NextLost ==
  \/ \E m \in {"select", "arrow"} : Toolbar(m)
  \/ ShapeRoom /\ Toolbar("rect")
  \/ \E target \in Targets(state) :
       /\ IF state.mode = "select"
          THEN target \in Handles(state)
               /\ Len(state.history) + Len(state.future) <= MaxLost
          ELSE Len(state.history) + Len(state.future) < MaxLost
       /\ MouseDown([x |-> 0, y |-> 0], target)
  \/ \E pos \in Points : MouseMove(pos)
  \/ \E found \in Intersections(state) \cup Stale(state) : MouseUp(found)
  \/ \E handlePos \in HandlePositions : StartReconnect(handlePos)
  \/ /\ pointer.pressed /\ ui.previewShape # Null
     /\ Len(state.history) + Len(state.future) < MaxLost
     /\ \/ \E i \in DOMAIN state.objects : DeleteObject(i)
        \/ ClearBoard
  \/ pointer.pressed /\ ui.previewShape # Null /\ Undo

SpecLost == Init /\ [][NextLost]_vars

NextMoves ==
  \/ \E m \in {"select", "draw", "line", "arrow"} : Toolbar(m)
  \/ ShapeRoom /\ Toolbar("rect")
  \/ \E target \in Targets(state) :
       /\ IF state.mode = "select"
          THEN Len(state.history) <= MaxMoved
          ELSE Len(state.history) < MaxMoved
       /\ MouseDown([x |-> 0, y |-> 0], target)
  \/ \E pos \in Points : MouseMove(pos)
  \/ \E found \in Intersections(state) : MouseUp(found)
  \/ \E handlePos \in HandlePositions : StartReconnect(handlePos)

SpecMoves == InitCanvas /\ [][NextMoves]_vars

\* C35: no pointer-move changes the object mapping, the selection, history
\* or future, whatever the mode and whatever is in progress; and the
\* pointer-down that starts a stroke, a preview or the marquee leaves the
\* mapping, history and future as they are, so that what is in progress is
\* in the store only once a pointer-up has committed it.
ThmC35 ==
  [][/\ \A pos \in Points :
          (last'.type = "mousemove" /\ MouseMove(pos))
            => /\ state'.objects = state.objects
               /\ state'.selectedIds = state.selectedIds
               /\ state'.history = state.history
               /\ state'.future = state.future
     /\ (last'.type = "mousedown" /\ InProgress(ui') /\ ~InProgress(ui))
          => /\ state'.objects = state.objects
             /\ state'.history = state.history
             /\ state'.future = state.future]_vars

\* A pointer-move has stretched the preview of a reconnection.
WitnessC35 ==
  /\ last.type = "mousemove"
  /\ ui.reconnect.active
  /\ ui.previewShape # Null
  /\ ui.previewShape.points[3] # ui.previewShape.points[1]
====
